---- MODULE Spec2Model ----
(***************************************************************************)
(* A model of ctrl/tasks/task_generator.py: the TaskGenerator (an append-  *)
(* only pool of tasks grown by add_task and load_task), its cursor         *)
(* TaskGenIter, the sample synthesis of get_samples and the similarity     *)
(* matrices of get_similarities.                                           *)
(*                                                                         *)
(* Python's 0-based positions are kept in the data (ids, labels, split     *)
(* ids); TLA+ sequences are 1-based, so position p of a Python list is     *)
(* element p + 1 of the sequence that models it.                           *)
(***************************************************************************)
EXTENDS Integers, Sequences, FiniteSets, TLC

VARIABLES
    task_pool,              \* self.task_pool: the sequence of Task objects
    heap,                   \* the list objects tasks and candidate specs share
    contains_loaded_tasks,  \* self.contains_loaded_tasks
    rnd,                    \* self.rnd: the number of draws made from it
    cfg,                    \* the constructor's arguments
    cursors,                \* the TaskGenIter objects: cursor -> n
    result,                 \* what the last call returned or raised
    pc,                     \* position of each logical thread in its call
    loc,                    \* the locals of each logical thread's call
    overlap                 \* history: some call began while another was running

vars == <<task_pool, heap, contains_loaded_tasks, rnd, cfg, cursors, result,
          pc, loc, overlap>>

(***************************************************************************)
(* Bounds of the model.                                                    *)
(***************************************************************************)
MaxTasks == 2
MaxCount == 2

(***************************************************************************)
(* Outcomes of a call: a value, or the exception it raised.                *)
(***************************************************************************)
Ok(v) == [ok |-> TRUE, err |-> "", val |-> v]
Raise(e) == [ok |-> FALSE, err |-> e, val |-> <<>>]

RECURSIVE Flatten(_)
Flatten(ss) == IF ss = <<>> THEN <<>> ELSE Head(ss) \o Flatten(Tail(ss))

Max(a, b) == IF a >= b THEN a ELSE b

(***************************************************************************)
(* Sample synthesis.  A sample is a record that tells where it came from:  *)
(* the concept-group that drew it, the split, its rank in the draw, the    *)
(* augmentation variant (0: as drawn, 1..4: perturbed, 5: re-encoded       *)
(* copy) and the transformation applied to it (0: none yet).               *)
(***************************************************************************)
\* range(4): the perturbed variants of one sample
NVariants == 4
\* augment = [1]: the split id that test-time augmentation inflates
TtaSplitId == 1
\* the variant tag of the unperturbed, re-encoded copy
CopyVariant == NVariants + 1

\* ComposedConcept(cat_concepts)._get_samples(n, attributes, split_id, rng):
\* n samples of the mixture for that split.
_get_samples(cat_concepts, n, s_id) ==
    [k \in 1..n |-> [grp |-> cat_concepts, split |-> s_id, rank |-> k - 1,
                     variant |-> 0, trans |-> 0]]

\* for i in range(4): aug_samples.append(trans(sample))
Perturbed(sample) ==
    [v \in 1..NVariants |-> [sample EXCEPT !.variant = v]]

\* transforms.ToTensor()(transforms.ToPILImage()(sample))
Reencoded(sample) == [sample EXCEPT !.variant = CopyVariant]

\* torch.stack(aug_samples), which refuses an empty list
Stack(aug_samples) ==
    IF aug_samples = <<>> THEN Raise("RuntimeError") ELSE Ok(aug_samples)

\* The augmented split without the re-encoded copies.
PerturbedOnly(samples) ==
    Stack(Flatten([r \in 1..Len(samples) |-> Perturbed(samples[r])]))

\* The augmented split with the perturbed variants taken variant after
\* variant: the first of every sample, then the second of every sample.
VariantMajor(samples) ==
    Stack(Flatten([v \in 1..NVariants |->
                     [r \in 1..Len(samples) |-> Perturbed(samples[r])[v]]])
          \o [r \in 1..Len(samples) |-> Reencoded(samples[r])])

\* augment_samples: the 4 perturbed variants of each sample, sample after
\* sample, then the re-encoded copy of each sample.
augment_samples(samples) ==
    Stack(Flatten([r \in 1..Len(samples) |-> Perturbed(samples[r])])
          \o [r \in 1..Len(samples) |-> Reencoded(samples[r])])

\* Labels that count the concept-groups from 1.
LabelledFromOne(i, split_samples) ==
    IF ~split_samples.ok THEN split_samples
    ELSE Ok([samples |-> split_samples.val,
             labels |-> [r \in 1..Len(split_samples.val) |-> i + 1]])

\* cat_id = torch.tensor([i]).expand(split_samples.shape[0], 1): a label
\* row per sample of the split
Labelled(i, split_samples) ==
    IF ~split_samples.ok THEN split_samples
    ELSE Ok([samples |-> split_samples.val,
             labels |-> [r \in 1..Len(split_samples.val) |-> i]])

\* One (category, split) cell of the nested loops: the split's samples,
\* augmented when s_id is in augment, and their labels.
CatSplit(i, cat_concepts, n, s_id, augment) ==
    Labelled(i, IF s_id \in augment
                THEN augment_samples(_get_samples(cat_concepts, n, s_id))
                ELSE Ok(_get_samples(cat_concepts, n, s_id)))

\* The nested loops over the categories and the splits.
CatSplits(categories, n_samples_per_class, augment) ==
    [c \in 1..Len(categories) |->
        [s \in 1..Len(n_samples_per_class) |->
            CatSplit(c - 1, categories[c], n_samples_per_class[s], s - 1,
                     augment)]]

\* Lines 80-87 on the cells of the loops: an error raised in the loops
\* ends the call at the first cell that raised; samples[0][0] needs a
\* category and a split; then each split's samples and labels are
\* concatenated over the categories, in order.
Concatenated(cells) ==
    LET failed == {p \in UNION {{<<c, s>> : s \in 1..Len(cells[c])} :
                                 c \in 1..Len(cells)} : ~cells[p[1]][p[2]].ok}
        first == CHOOSE p \in failed :
                    \A q \in failed : p[1] < q[1] \/ (p[1] = q[1] /\ p[2] <= q[2])
    IN  IF failed # {} THEN cells[first[1]][first[2]]
        ELSE IF cells = <<>> \/ cells[1] = <<>> THEN Raise("IndexError")
        ELSE Ok([s \in 1..Len(cells[1]) |->
                   [samples |-> Flatten([c \in 1..Len(cells) |->
                                            cells[c][s].val.samples]),
                    labels |-> Flatten([c \in 1..Len(cells) |->
                                           cells[c][s].val.labels])]])

\* _generate_samples_from_descr: attributes is the pair (use_cat_id,
\* attributes); one samples batch and one labels batch per split.
_generate_samples_from_descr(categories, attributes, n_samples_per_class, augment) ==
    IF ~(attributes[1] /\ attributes[2] = <<>>) THEN Raise("AssertionError")
    ELSE Concatenated(CatSplits(categories, n_samples_per_class, augment))

\* transformation(x): the transformation applied to every sample of a batch.
Transform(transformation, x) ==
    [r \in 1..Len(x) |-> [x[r] EXCEPT !.trans = transformation]]

\* Lines 287-289: the transformation (0 stands for None) is applied to the
\* samples of every split, the labels are passed through.
Transformed(transformation, generated) ==
    IF ~generated.ok THEN generated
    ELSE IF transformation = 0 THEN Raise("TypeError")
    ELSE Ok([s \in 1..Len(generated.val) |->
               <<Transform(transformation, generated.val[s].samples),
                 generated.val[s].labels>>])

\* augment = [1] if self.tta else []
Augment(tta) == IF tta THEN {TtaSplitId} ELSE {}

\* get_samples, but for the draw it makes from self.rnd.
get_samples(tta, concepts, attributes, transformation, n_samples_per_class) ==
    Transformed(transformation,
                _generate_samples_from_descr(concepts, attributes,
                                             n_samples_per_class,
                                             Augment(tta)))

(***************************************************************************)
(* The generator's environment.  The concept pool, the transformation      *)
(* pool, the strategy and the Task constructor are collaborators of the    *)
(* generator; the model gives them small ranges and lets each call choose. *)
(***************************************************************************)
\* the leaf concepts the concept pool can hand out as mutually compatible
Leaves == {1, 2}
\* len(concept_pool.attributes)
Attributes == {0}
\* the transformations of the transformation pool (0 stands for None)
Transformations == {1, 2}
\* the split names a generator may be constructed with
SplitNameChoices == {<<"train", "val", "test">>, <<"train", "val">>}
\* load_task: splits = ['train', 'val', 'test']
LoadSplits == <<"train", "val", "test">>

\* the heap address of self.n_samples_per_class, the list the constructor got
GenN == 1

\* A fresh address: the least one the heap does not use.
Fresh(h) == CHOOSE o \in 1..(Cardinality(DOMAIN h) + 1) :
                o \notin DOMAIN h /\ \A q \in 1..(o - 1) : q \in DOMAIN h

\* A list object: what it is a list of, and its elements.
Object(kind, list) == [kind |-> kind, list |-> list]

Placed(h, ref, kind, list) ==
    [heap |-> (ref :> Object(kind, list)) @@ h, ref |-> ref]

\* The heap with a new list object, and the object's address.
Alloc(h, kind, list) == Placed(h, Fresh(h), kind, list)

\* The addresses a task holds (0 stands for None).
TaskRefs(t) == {t.cref, t.nref, t.attributes.aref} \ {0}

\* Objects no task and no generator field refers to are dropped.
Collect(pool, h) ==
    [o \in (DOMAIN h) \cap
           ({GenN} \cup UNION {TaskRefs(pool[i]) : i \in 1..Len(pool)}) |-> h[o]]

\* task.attributes is None
NoAttributes == [none |-> TRUE, use_cat_id |-> FALSE, aref |-> 0]

\* concept_pool.get_compatible_concepts(k, leaf_only=True): k compatible
\* leaf concepts, or an IndexError when the pool has fewer than k.
get_compatible_concepts(k) ==
    IF k > Cardinality(Leaves) THEN Raise("IndexError")
    ELSE Ok([c \in 1..k |-> c])

\* Lines 308-314, with the new list of groups at groups.ref: the sampled
\* attributes are a new list, the counts are the generator's own list.
NewSpec(groups, attributes, transformation, n_attributes) ==
    Ok([spec |-> [cref |-> groups.ref, nref |-> GenN,
                  attributes |-> [none |-> FALSE,
                                  use_cat_id |-> cfg.use_cat_id,
                                  aref |-> attributes.ref],
                  transformation |-> transformation],
        heap |-> attributes.heap, draws |-> n_attributes])

\* concepts = [(c,) for c in concepts]
Singletons(concepts) == [c \in 1..Len(concepts) |-> <<concepts[c]>>]

\* attributes = self.rnd.sample(range(n_avail_attrs), n_attributes)
SampledAttributes(n_attributes) == [k \in 1..n_attributes |-> k - 1]

\* The number of attributes checked before the concepts are asked for.
RangeCheckedFirst(h, concepts, n_attributes, transformation, groups) ==
    IF n_attributes > Cardinality(Attributes) THEN Raise("ValueError")
    ELSE IF ~concepts.ok THEN concepts
    ELSE NewSpec(groups,
                 Alloc(groups.heap, "attributes",
                       SampledAttributes(n_attributes)),
                 transformation, n_attributes)

\* Lines 304-314, with the concepts get_compatible_concepts returned (or
\* the error it raised): the number of attributes is checked after the
\* concepts were drawn, before the attributes and the transformation are.
WithConcepts(h, concepts, n_attributes, transformation, groups) ==
    IF ~concepts.ok THEN concepts
    ELSE IF n_attributes > Cardinality(Attributes) THEN Raise("ValueError")
    ELSE NewSpec(groups,
                 Alloc(groups.heap, "attributes",
                       SampledAttributes(n_attributes)),
                 transformation, n_attributes)

\* _create_new_task; draws counts the uses of self.rnd by rnd.sample.
_create_new_task(h, n_attributes, transformation) ==
    WithConcepts(h, get_compatible_concepts(cfg.n_initial_classes),
                 n_attributes, transformation,
                 Alloc(h, "concepts",
                       Singletons(get_compatible_concepts(
                                      cfg.n_initial_classes).val)))

\* The candidate spec of add_task when the pool is not empty: the fields of
\* the last task, the very same objects.
LastSpec(pool) ==
    [cref |-> pool[Len(pool)].cref, nref |-> pool[Len(pool)].nref,
     attributes |-> pool[Len(pool)].attributes,
     transformation |-> pool[Len(pool)].transformation]

(***************************************************************************)
(* The strategy.  new_task gets the candidate spec (a namespace whose      *)
(* fields are the objects named above), the pools and task_pool, and       *)
(* returns the evolved spec or raises.  The generator does not interpret   *)
(* it, so a call may do any one of these moves:                            *)
(*   keep      return the candidate as it is                               *)
(*   raise     raise IndexError (a pool is exhausted) or another error     *)
(*   replace   bind one field of the spec to a new object                  *)
(*   inplace   change the list object one field refers to                  *)
(*   fill      bind every field to a new object (a complete new spec)      *)
(* value indexes the objects a move may produce for its field.             *)
(***************************************************************************)
\* concept groups: one composed group, or no group at all
ConceptsChoice(v) ==
    CASE v = 1 -> << <<1, 2>> >>
      [] OTHER -> <<>>

\* per-split counts for ns splits: a list with one count too many, or
\* other counts of the right length
CountsChoice(v, ns) ==
    CASE v = 1 -> [s \in 1..(ns + 1) |-> 1]
      [] OTHER -> [s \in 1..ns |-> IF s = 1 THEN 2 ELSE 1]

\* the pair (use_cat_id, attributes): an attribute in use, or none
AttributesChoice(v) ==
    CASE v = 1 -> <<TRUE, <<0>> >>
      [] OTHER -> <<TRUE, <<>> >>

Fields == {"concepts", "n", "attributes", "transformation"}

FieldRef(spec, field) ==
    CASE field = "concepts" -> spec.cref
      [] field = "n" -> spec.nref
      [] field = "attributes" -> spec.attributes.aref
      [] OTHER -> 0

FieldValue(field, v) ==
    CASE field = "concepts" -> ConceptsChoice(v)
      [] field = "n" -> CountsChoice(v, Len(cfg.split_names))
      [] OTHER -> AttributesChoice(v)[2]

Move(kind, field, value) == [kind |-> kind, field |-> field, value |-> value]

\* The strategies a generator may be constructed with, each with the moves
\* its new_task may make: one that returns new objects and raises
\* IndexError when a pool is exhausted, one whose evolved specs the
\* generator has to reject, and one that changes the candidate's lists in
\* place.
Strategies == {"replacing", "failing", "mutating"}

StrategyMoves(strat) ==
    CASE strat = "replacing" ->
           {Move("keep", "-", 0), Move("fill", "-", 0),
            Move("raise", "IndexError", 0),
            Move("replace", "concepts", 1), Move("replace", "n", 2),
            Move("replace", "transformation", 2)}
      [] strat = "failing" ->
           {Move("keep", "-", 0), Move("raise", "StrategyError", 0),
            Move("replace", "concepts", 2), Move("replace", "n", 1),
            Move("replace", "attributes", 1)}
      [] OTHER ->
           {Move("keep", "-", 0), Move("inplace", "concepts", 1),
            Move("inplace", "n", 1), Move("inplace", "attributes", 1)}

\* spec.<field> = the object at new.ref (for the transformation: = v)
Bound(spec, h, field, v, new) ==
    CASE field = "concepts" ->
           [spec |-> [spec EXCEPT !.cref = new.ref], heap |-> new.heap]
      [] field = "n" ->
           [spec |-> [spec EXCEPT !.nref = new.ref], heap |-> new.heap]
      [] field = "attributes" ->
           [spec |-> [spec EXCEPT !.attributes =
                         [none |-> FALSE,
                          use_cat_id |-> AttributesChoice(v)[1],
                          aref |-> new.ref]],
            heap |-> new.heap]
      [] OTHER ->
           [spec |-> [spec EXCEPT !.transformation = v], heap |-> h]

\* spec.<field> = <a new object>
Replace(sh, field, v) ==
    Bound(sh.spec, sh.heap, field, v,
          Alloc(sh.heap, field, FieldValue(field, v)))

\* <the list of spec.<field>>[:] = <other elements>
InPlace(spec, h, ref, field, v) ==
    IF ref = 0 THEN Raise("StrategyError")
    ELSE Ok([spec |-> spec,
             heap |-> [h EXCEPT ![ref].list = FieldValue(field, v)]])

\* strat.new_task(cur_task_spec, concept_pool, transformation_pool, task_pool)
new_task(spec, h, mv) ==
    CASE mv.kind = "keep" -> Ok([spec |-> spec, heap |-> h])
      [] mv.kind = "raise" -> Raise(mv.field)
      [] mv.kind = "replace" ->
           Ok(Replace([spec |-> spec, heap |-> h], mv.field, mv.value))
      [] mv.kind = "inplace" ->
           InPlace(spec, h, FieldRef(spec, mv.field), mv.field, mv.value)
      [] OTHER ->
           Ok(Replace(Replace(Replace(Replace([spec |-> spec, heap |-> h],
                                              "concepts", 1),
                                      "n", 2),
                              "attributes", 2),
                      "transformation", 1))

\* What the environment decides in one add_task call: the transformation
\* get_transformation returns, the strategy's move, and whether the Task
\* constructor accepts its arguments.
Environments ==
    [transformation : Transformations, mv : StrategyMoves(cfg.strat),
     task_ok : BOOLEAN]

\* get_transformation is called only for the first task of a pool, and the
\* Task constructor only with the samples of a spec, so their choices are
\* enumerated only there.
EnvironmentsOf(pool) ==
    {env \in Environments :
        /\ pool # <<>> => env.transformation = 1
        /\ ~env.task_ok => env.mv.kind = "keep"}

(***************************************************************************)
(* add_task.  A task is a record of its id (-1: not set), whether it was   *)
(* loaded, the number of (samples, labels) pairs it holds, and its spec    *)
(* fields.                                                                 *)
(***************************************************************************)
\* The samples of a spec whose fields may be None: the attributes pair is
\* unpacked and asserted before the loop over the concepts begins.
SpecSamples(task_spec, h) ==
    IF task_spec.attributes.none THEN Raise("TypeError")
    ELSE IF ~(/\ task_spec.attributes.use_cat_id
              /\ h[task_spec.attributes.aref].list = <<>>)
    THEN Raise("AssertionError")
    ELSE IF task_spec.cref = 0 THEN Raise("TypeError")
    ELSE get_samples(cfg.tta, h[task_spec.cref].list,
                     <<task_spec.attributes.use_cat_id,
                       h[task_spec.attributes.aref].list>>,
                     task_spec.transformation, h[task_spec.nref].list)

\* Task(name, samples, loss, transformation, self.split_names, ...)
Task(task_spec, samples, task_ok) ==
    IF ~samples.ok THEN samples
    ELSE IF ~task_ok THEN Raise("TaskError")
    ELSE Ok([id |-> -1, loaded |-> FALSE, npairs |-> Len(samples.val),
             cref |-> task_spec.cref, nref |-> task_spec.nref,
             attributes |-> task_spec.attributes,
             transformation |-> task_spec.transformation])

\* _create_task: the samples are synthesized (get_samples draws once from
\* self.rnd before anything can fail), then the Task is constructed.
_create_task(task_spec, h, task_ok) ==
    Task(task_spec, SpecSamples(task_spec, h), task_ok)

\* The outcome of a call on the generator: what it returned or raised, the
\* step that raised, and the generator's state after it.
Outcome(err, step, ret, pool, h, r) ==
    [outcome |-> err, step |-> step, ret |-> ret, pool |-> pool, heap |-> h,
     rnd |-> r]

\* new_task_id = len(self.task_pool), as add_task reads it
NewTaskId(pool) == Len(pool)

\* The task put in front of the pool.
PrependTask(pool, task) == <<task>> \o pool

\* self.task_pool.append(task)
AppendTask(pool, task) == Append(pool, task)

\* The task appended as _create_task returned it, its id not assigned.
IdNotAssigned(task, new_task_id) == task

\* new_task.id = new_task_id
WithId(task, new_task_id) == [task EXCEPT !.id = new_task_id]

\* A candidate made from scratch whatever the pool holds.
CandidateAlwaysNew(pool, h, new_task_id, transformation) ==
    _create_new_task(h, 0, transformation)

\* Lines 163-170: the candidate spec, made from scratch for an empty pool
\* and of the last task's fields otherwise.
Candidate(pool, h, new_task_id, transformation) ==
    IF new_task_id = 0
    THEN _create_new_task(h, 0, transformation)
    ELSE Ok([spec |-> LastSpec(pool), heap |-> h, draws |-> 0])

\* The task appended before it is created: a failed creation leaves a task
\* without samples and fields in the pool.
AppendedFirst(pool, new_task_id, h, r, built) ==
    IF ~built.ok
    THEN Outcome(built.err, "create", <<>>,
                 AppendTask(pool, [id |-> new_task_id, loaded |-> FALSE,
                                   npairs |-> 0, cref |-> 0, nref |-> 0,
                                   attributes |-> NoAttributes,
                                   transformation |-> 0]), h, r)
    ELSE Outcome("ok", "", <<WithId(built.val, new_task_id)>>,
                 AppendTask(pool, WithId(built.val, new_task_id)), h, r)

\* Lines 184-186, with the task _create_task returned (or its error).
Appended(pool, new_task_id, h, r, built) ==
    IF ~built.ok THEN Outcome(built.err, "create", <<>>, pool, h, r)
    ELSE Outcome("ok", "", <<WithId(built.val, new_task_id)>>,
                 AppendTask(pool, WithId(built.val, new_task_id)), h, r)

\* Lines 181-186: the evolved spec is validated, the task created, given
\* its id and appended.
Materialize(pool, new_task_id, cur_task_spec, h, r, task_ok) ==
    IF cur_task_spec.nref = 0
    THEN Outcome("TypeError", "validate", <<>>, pool, h, r)
    ELSE IF Len(h[cur_task_spec.nref].list) # Len(cfg.split_names)
    THEN Outcome("AssertionError", "validate", <<>>, pool, h, r)
    ELSE Appended(pool, new_task_id, h, r + 1,
                  _create_task(cur_task_spec, h, task_ok))

\* Lines 181-186, with the spec new_task returned (or the error it raised).
Evolved(pool, h, r, new_task_id, evolved, task_ok) ==
    IF ~evolved.ok THEN Outcome(evolved.err, "strategy", <<>>, pool, h, r)
    ELSE Materialize(pool, new_task_id, evolved.val.spec, evolved.val.heap,
                     r, task_ok)

\* Lines 178-186, with the candidate (or the error that making it raised).
Evolve(pool, h, r, new_task_id, created, env) ==
    IF ~created.ok THEN Outcome(created.err, "candidate", <<>>, pool, h, r)
    ELSE Evolved(pool, h, r + created.val.draws, new_task_id,
                 new_task(created.val.spec, created.val.heap, env.mv),
                 env.task_ok)

\* add_task on the generator state (pool, h, r) with the environment env.
add_task(pool, h, r, env) ==
    Evolve(pool, h, r, NewTaskId(pool),
           Candidate(pool, h, NewTaskId(pool), env.transformation), env)

(***************************************************************************)
(* load_task.                                                              *)
(***************************************************************************)
\* what the metadata file of a task may be: not there, or a dict the Task
\* constructor rejects
MetaChoices == {"absent", "rejected"}

\* The files read without the assertion that they are there.
NoneMissing(files) == 0

\* The first split, in the order of the loop, whose file is not there.
FirstMissing(files) ==
    LET missing == {k \in 1..Len(LoadSplits) : LoadSplits[k] \notin files}
    IN  IF missing = {} THEN 0
        ELSE CHOOSE k \in missing : \A q \in missing : k <= q

\* The id of the last task taken again.
LoadTaskIdOfLast(pool) == Max(Len(pool) - 1, 0)

\* id=len(self.task_pool), as load_task reads it
LoadTaskId(pool) == Len(pool)

\* Task(task_name, samples, loss, split_names=..., id=..., **meta): a task
\* built from the loaded pairs alone has no spec field.
LoadedTask(id, samples) ==
    [id |-> id, loaded |-> TRUE, npairs |-> Len(samples),
     cref |-> 0, nref |-> 0, attributes |-> NoAttributes, transformation |-> 0]

\* The task appended and the flag left as it was.
LoadedUnflagged(pool, h, r, flag, meta, task) ==
    IF meta = "rejected"
    THEN [flag |-> flag] @@ Outcome("TypeError", "construct", <<>>, pool, h, r)
    ELSE [flag |-> flag] @@
         Outcome("ok", "", <<task>>, AppendTask(pool, task), h, r)

\* Lines 203-208: the task is constructed with its id, appended, and the
\* flag is set.
Loaded(pool, h, r, flag, meta, task) ==
    IF meta = "rejected"
    THEN [flag |-> flag] @@ Outcome("TypeError", "construct", <<>>, pool, h, r)
    ELSE [flag |-> TRUE] @@
         Outcome("ok", "", <<task>>, AppendTask(pool, task), h, r)

\* Lines 192-197 with `missing` the first split whose file is not there
\* (0: none): the assertion fails there, after the earlier files were read.
ReadSplits(pool, h, r, flag, meta, missing) ==
    IF missing # 0
    THEN [flag |-> flag] @@
         Outcome("AssertionError", LoadSplits[missing], <<>>, pool, h, r)
    ELSE Loaded(pool, h, r, flag, meta, LoadedTask(LoadTaskId(pool), LoadSplits))

\* load_task with the files of `files` present and the metadata `meta`;
\* flag is self.contains_loaded_tasks after the call.
load_task(pool, h, r, flag, files, meta) ==
    ReadSplits(pool, h, r, flag, meta, FirstMissing(files))

(***************************************************************************)
(* The generator driven by one caller: every call runs to its end before   *)
(* the next one begins.                                                    *)
(***************************************************************************)
\* The cursors are named in the order of their creation.
Cursors == {"it1", "it2"}
CursorBefore(b, c) == b = "it1" /\ c = "it2"
Threads == {"t1", "t2"}

\* The generators the model follows: with each strategy, a concept pool
\* that can supply the initial classes and the usual three splits; and,
\* with the replacing strategy, a concept pool that cannot, or two splits.
Configs ==
    {c \in [n_initial_classes : {Cardinality(Leaves), Cardinality(Leaves) + 1},
            tta : {TRUE}, use_cat_id : {TRUE},
            split_names : SplitNameChoices, strat : Strategies] :
        \/ c.n_initial_classes = Cardinality(Leaves) /\ c.split_names = LoadSplits
        \/ c.strat = "replacing" /\
              (c.n_initial_classes = Cardinality(Leaves)
                 \/ c.split_names = LoadSplits)}

\* What a call reports: the operation, "ok" or the exception, the step
\* that raised, the returned task (a sequence of at most one task), the
\* cursor the call was made on and, for load_task, the files it found.
NoCall == [files |-> {}, meta |-> "-"]

Report(op, outcome, step, ret, cur, call) ==
    [op |-> op, outcome |-> outcome, step |-> step, ret |-> ret, cur |-> cur,
     call |-> call]

NumGenerated(pool) == Cardinality({i \in 1..Len(pool) : ~pool[i].loaded})

\* The model follows a generator up to MaxTasks tasks and MaxTasks draws
\* from self.rnd.
WithinBounds(o) ==
    /\ Len(o.pool) <= MaxTasks
    /\ o.rnd <= MaxTasks

\* TaskGenerator.__init__
Construct(c) ==
    /\ cfg = c
    /\ task_pool = <<>>
    /\ heap = (GenN :> Object("n", [s \in 1..Len(c.split_names) |-> 1]))
    /\ contains_loaded_tasks = FALSE
    /\ rnd = 0
    /\ cursors = <<>>
    /\ result = Report("init", "ok", "", <<>>, "-", NoCall)
    /\ pc = [t \in Threads |-> "idle"]
    /\ loc = [t \in Threads |-> <<>>]
    /\ overlap = FALSE

Init == \E c \in Configs : Construct(c)

\* a direct call of add_task
AddTask ==
    \E env \in EnvironmentsOf(task_pool) :
        \E o \in {add_task(task_pool, heap, rnd, env)} :
            /\ WithinBounds(o)
            /\ task_pool' = o.pool
            /\ heap' = Collect(o.pool, o.heap)
            /\ rnd' = o.rnd
            /\ result' = Report("add_task", o.outcome, o.step, o.ret, "-",
                                NoCall)
            /\ UNCHANGED <<contains_loaded_tasks, cfg, cursors, pc, loc, overlap>>

\* The files a load_task call may find: every split file, or all but one;
\* what the metadata file is matters only when the split files are all there.
SplitFiles == {LoadSplits[k] : k \in 1..Len(LoadSplits)}

LoadCalls ==
    {call \in [files : {SplitFiles} \cup {SplitFiles \ {f} : f \in SplitFiles},
               meta : MetaChoices] :
        FirstMissing(call.files) # 0 => call.meta = "absent"}

\* a direct call of load_task
LoadTask ==
    \E call \in LoadCalls :
        \E o \in {load_task(task_pool, heap, rnd, contains_loaded_tasks,
                            call.files, call.meta)} :
            /\ WithinBounds(o)
            /\ task_pool' = o.pool
            /\ heap' = Collect(o.pool, o.heap)
            /\ rnd' = o.rnd
            /\ contains_loaded_tasks' = o.flag
            /\ result' = Report("load_task", o.outcome, o.step, o.ret, "-",
                                call)
            /\ UNCHANGED <<cfg, cursors, pc, loc, overlap>>

\* TaskGenerator.__iter__: a new TaskGenIter, n = 0
Iter(c) ==
    /\ c \notin DOMAIN cursors
    /\ \A b \in Cursors : CursorBefore(b, c) => b \in DOMAIN cursors
    /\ cursors' = (c :> 0) @@ cursors
    /\ result' = Report("iter", "ok", "", <<>>, "-", NoCall)
    /\ UNCHANGED <<task_pool, heap, contains_loaded_tasks, rnd, cfg, pc, loc,
                   overlap>>

\* The task at the end of the pool instead of the one at the cursor.
TaskAtEnd(pool, n) == pool[Len(pool)]

\* self.task_gen.task_pool[self.n]
TaskAt(pool, n) == pool[n + 1]

\* n incremented in a finally clause: also when the sequence ended.
ExtendedAlways(n, o) ==
    IF o.outcome = "IndexError"
    THEN [n |-> n + 1] @@ [o EXCEPT !.outcome = "StopIteration"]
    ELSE IF o.outcome # "ok" THEN [n |-> n] @@ o
    ELSE [n |-> n + 1] @@ o

\* n incremented before add_task is called and set back only when the
\* sequence ended: an error that goes to the caller leaves n incremented.
ExtendedOnError(n, o) ==
    IF o.outcome = "IndexError"
    THEN [n |-> n] @@ [o EXCEPT !.outcome = "StopIteration"]
    ELSE [n |-> n + 1] @@ o

\* Lines 100-105, with the outcome of add_task: an IndexError becomes
\* StopIteration, any other error goes to the caller, and n is incremented
\* only when a task is returned.
Extended(n, o) ==
    IF o.outcome = "IndexError"
    THEN [n |-> n] @@ [o EXCEPT !.outcome = "StopIteration"]
    ELSE IF o.outcome # "ok" THEN [n |-> n] @@ o
    ELSE [n |-> n + 1] @@ o

\* TaskGenIter.__next__ with the generator's state (pool, h, r): the task
\* at position n, or the task add_task returns.
next(n, pool, h, r, env) ==
    IF Len(pool) > n
    THEN [n |-> n + 1] @@ Outcome("ok", "", <<TaskAt(pool, n)>>, pool, h, r)
    ELSE IF n # Len(pool)
    THEN [n |-> n] @@ Outcome("AssertionError", "cursor", <<>>, pool, h, r)
    ELSE Extended(n, add_task(pool, h, r, env))

\* an advance of cursor c
Advance(c) ==
    /\ c \in DOMAIN cursors
    /\ \E env \in EnvironmentsOf(task_pool) :
        \E o \in {next(cursors[c], task_pool, heap, rnd, env)} :
            /\ WithinBounds(o)
            /\ task_pool' = o.pool
            /\ heap' = Collect(o.pool, o.heap)
            /\ rnd' = o.rnd
            /\ cursors' = [cursors EXCEPT ![c] = o.n]
            /\ result' = Report("next", o.outcome, o.step, o.ret, c, NoCall)
            /\ UNCHANGED <<contains_loaded_tasks, cfg, pc, loc, overlap>>

Next ==
    \/ AddTask
    \/ LoadTask
    \/ \E c \in Cursors : Iter(c)
    \/ \E c \in Cursors : Advance(c)

Spec == Init /\ [][Next]_vars

(***************************************************************************)
(* Properties of the generator driven by one caller (Spec).  A step is     *)
(* told by the report it leaves in result: result'.op names the call that  *)
(* made the step.                                                          *)
(***************************************************************************)
IsPrefix(s, t) == Len(s) <= Len(t) /\ \A i \in 1..Len(s) : s[i] = t[i]

LastTask(pool) == pool[Len(pool)]

HasLoaded(pool) == \E i \in 1..Len(pool) : pool[i].loaded

\* C1: after any sequence of add_task and load_task calls, successful or
\* failing, and of cursor advances, made one at a time on one generator, the
\* id of every task of task_pool is its position: task_pool[i].id == i.
C1_IdIsPosition ==
    \A i \in 1..Len(task_pool) : task_pool[i].id = i - 1

\* C1 witness: a pool of a loaded and a generated task, reached through a
\* cursor, right after a call that failed.
C1_Witness ==
    /\ Len(task_pool) = 2
    /\ task_pool[1].loaded /\ ~task_pool[2].loaded
    /\ result.outcome # "ok"
    /\ \E c \in DOMAIN cursors : cursors[c] = 2

\* C2: a successful add_task grows task_pool by exactly one task, appended
\* at the end: the pool before is a strict prefix of the pool after, the
\* returned task is the new last element and its id is len(task_pool) - 1
\* after the call; and no operation ever shortens or reorders task_pool.
C2_AddTaskAppendsOne ==
    [][/\ IsPrefix(task_pool, task_pool')
       /\ (result'.op = "add_task" /\ result'.outcome = "ok") =>
             /\ Len(task_pool') = Len(task_pool) + 1
             /\ result'.ret = <<LastTask(task_pool')>>
             /\ LastTask(task_pool').id = Len(task_pool') - 1]_vars

\* C2 witness: add_task has just succeeded on a pool that held a loaded task.
C2_Witness ==
    /\ result.op = "add_task" /\ result.outcome = "ok"
    /\ Len(task_pool) = 2
    /\ task_pool[1].loaded
    /\ result.ret = <<task_pool[2]>>

\* A generated task that is complete: its id is set, it holds one pair of
\* samples and labels per split, and none of its spec fields is None.
Complete(task) ==
    /\ task.id >= 0
    /\ task.npairs = Len(cfg.split_names)
    /\ task.cref # 0 /\ task.nref # 0
    /\ ~task.attributes.none
    /\ task.transformation # 0

\* C3: a failing add_task, called directly or by a cursor, leaves task_pool
\* as it was, the same tasks in the same order, whichever step fails (the
\* from-scratch candidate, the strategy, the assertion on the evolved counts,
\* the sample synthesis or the Task construction); and no partially built
\* task is ever in task_pool.
C3_FailedAddTaskKeepsPool ==
    /\ [][(result'.op \in {"add_task", "next"} /\ result'.outcome # "ok") =>
             task_pool' = task_pool]_vars
    /\ [](\A i \in 1..Len(task_pool) :
             ~task_pool[i].loaded => Complete(task_pool[i]))

\* C3 witness: add_task has just failed in the creation of the task, on a
\* pool that is not empty.
C3_Witness ==
    /\ result.op = "add_task" /\ result.outcome # "ok"
    /\ result.step = "create"
    /\ Len(task_pool) >= 1

\* C4: load_task fails when the file of any one of the splits train, val,
\* test is absent, and task_pool and contains_loaded_tasks are then as
\* before the call, also when the files of earlier splits were read; the
\* absence of the metadata file alone does not make load_task fail.
C4_LoadTaskNeedsEverySplit ==
    [][result'.op = "load_task" =>
          /\ result'.call.files # SplitFiles =>
                /\ result'.outcome = "AssertionError"
                /\ result'.step \in SplitFiles \ result'.call.files
                /\ task_pool' = task_pool
                /\ contains_loaded_tasks' = contains_loaded_tasks
          /\ (result'.call.files = SplitFiles /\ result'.call.meta = "absent") =>
                /\ result'.outcome = "ok"
                /\ LastTask(task_pool').loaded]_vars

\* C4 witness: load_task has just failed at the last split, after the files
\* of train and val were read, on a generator that had loaded a task.
C4_Witness ==
    /\ result.op = "load_task" /\ result.outcome = "AssertionError"
    /\ result.step = "test"
    /\ result.call.files = {"train", "val"}
    /\ contains_loaded_tasks
    /\ Len(task_pool) >= 1

\* C5: a successful load_task, on a pool of any length and mix of tasks,
\* appends exactly one task at the end whose id is the number of tasks
\* before the call, returns it and sets contains_loaded_tasks; the flag is
\* false at construction and true exactly when a load_task has succeeded:
\* it is never reset, and no other call sets it.
C5_LoadTaskAppendsAndFlags ==
    /\ [][(result'.op = "load_task" /\ result'.outcome = "ok") =>
             /\ IsPrefix(task_pool, task_pool')
             /\ Len(task_pool') = Len(task_pool) + 1
             /\ LastTask(task_pool').id = Len(task_pool)
             /\ LastTask(task_pool').loaded
             /\ result'.ret = <<LastTask(task_pool')>>
             /\ contains_loaded_tasks']_vars
    /\ [][contains_loaded_tasks' # contains_loaded_tasks =>
             /\ contains_loaded_tasks'
             /\ result'.op = "load_task" /\ result'.outcome = "ok"]_vars
    /\ [](contains_loaded_tasks <=> HasLoaded(task_pool))

\* C5 witness: load_task has just succeeded on a pool that held a generated
\* task only.
C5_Witness ==
    /\ result.op = "load_task" /\ result.outcome = "ok"
    /\ Len(task_pool) = 2
    /\ ~task_pool[1].loaded
    /\ contains_loaded_tasks

\* C6: every call of iter gives a new cursor at position 0; the k-th task a
\* cursor yields is task_pool[k], with id k; an advance below the end of
\* the pool replays the task there without generating anything, and an
\* advance at the end calls add_task once.  As the pool only grows at its
\* end, two cursors yield the same task at the same position, whatever the
\* interleaving of their advances.
C6_CursorsReplayThePool ==
    /\ [][result'.op = "iter" =>
             /\ \E c \in (DOMAIN cursors') \ (DOMAIN cursors) :
                    /\ cursors'[c] = 0
                    /\ DOMAIN cursors' = (DOMAIN cursors) \cup {c}
             /\ \A b \in DOMAIN cursors : cursors'[b] = cursors[b]
             /\ task_pool' = task_pool /\ rnd' = rnd]_vars
    /\ [][(result'.op = "next" /\ result'.outcome = "ok") =>
             /\ result'.ret = <<task_pool'[cursors[result'.cur] + 1]>>
             /\ task_pool'[cursors[result'.cur] + 1].id = cursors[result'.cur]
             /\ IsPrefix(task_pool, task_pool')
             /\ IF cursors[result'.cur] < Len(task_pool)
                THEN task_pool' = task_pool /\ heap' = heap /\ rnd' = rnd
                ELSE /\ cursors[result'.cur] = Len(task_pool)
                     /\ Len(task_pool') = Len(task_pool) + 1]_vars

\* C6 witness: the second cursor has just replayed position 0, after two
\* tasks were generated and yielded to the first cursor.
C6_Witness ==
    /\ DOMAIN cursors = Cursors
    /\ cursors["it1"] = 2 /\ cursors["it2"] = 1
    /\ result.op = "next" /\ result.cur = "it2" /\ result.outcome = "ok"
    /\ Len(task_pool) = 2 /\ NumGenerated(task_pool) = 2
    /\ result.ret = <<task_pool[1]>>

\* C7: an advance at the end of the pool whose add_task fails for an
\* exhausted pool (IndexError) signals the end of the sequence instead of
\* raising the error: it yields no task and leaves n and task_pool as they
\* were; an advance that yields a task increments n by exactly 1, and n
\* changes in no other way.
C7_ExhaustionEndsTheSequence ==
    /\ [](result.op = "next" => result.outcome # "IndexError")
    /\ [][(result'.op = "next" /\ result'.outcome = "StopIteration") =>
             /\ result'.ret = <<>>
             /\ cursors' = cursors
             /\ task_pool' = task_pool]_vars
    /\ [][(result'.op = "next" /\ result'.outcome = "ok") =>
             /\ result'.ret # <<>>
             /\ cursors'[result'.cur] = cursors[result'.cur] + 1]_vars
    /\ [][\A c \in DOMAIN cursors :
             cursors'[c] # cursors[c] =>
                /\ result'.op = "next" /\ result'.cur = c
                /\ result'.outcome = "ok"
                /\ cursors'[c] = cursors[c] + 1]_vars

\* C7 witness: an advance at the end of a pool that is not empty has just
\* ended the sequence, the strategy having found a pool exhausted.
C7_Witness ==
    /\ result.op = "next" /\ result.outcome = "StopIteration"
    /\ result.step = "strategy"
    /\ Len(task_pool) >= 1
    /\ cursors[result.cur] = Len(task_pool)

(***************************************************************************)
(* The generator called from two logical threads.  A call of add_task is   *)
(* followed through its reads and writes of the generator: it reads the    *)
(* length of the pool (line 161), builds its task (lines 163-184), and     *)
(* appends it (line 185).  A call of load_task reads the files (lines      *)
(* 189-202), constructs its task with the length of the pool as id (lines  *)
(* 203-205), appends it (line 206) and sets the flag (line 207).  overlap  *)
(* records that some call began while another call was running.            *)
(***************************************************************************)
Running == {t \in Threads : pc[t] # "idle"}

\* The tasks built by the running calls and not yet appended.
Pending ==
    {loc[t].task : t \in {u \in Threads : pc[u] \in {"add_built", "load_built"}}}

RECURSIVE SeqOf(_)
SeqOf(S) == IF S = {} THEN <<>>
            ELSE LET x == CHOOSE y \in S : TRUE IN <<x>> \o SeqOf(S \ {x})

\* A call begins only while the tasks in the pool and the running calls
\* are fewer than MaxTasks.
MayBegin(t) ==
    /\ pc[t] = "idle"
    /\ Len(task_pool) + Cardinality(Running) < MaxTasks

Begun(t, at, locals) ==
    /\ pc' = [pc EXCEPT ![t] = at]
    /\ loc' = [loc EXCEPT ![t] = locals]

Returned(t) ==
    /\ pc' = [pc EXCEPT ![t] = "idle"]
    /\ loc' = [loc EXCEPT ![t] = <<>>]

\* line 161: new_task_id = len(self.task_pool)
AddRead(t) ==
    /\ MayBegin(t)
    /\ Begun(t, "add_read", [id |-> NewTaskId(task_pool)])
    /\ overlap' = (overlap \/ Running # {})
    /\ UNCHANGED <<task_pool, heap, contains_loaded_tasks, rnd, cfg, cursors,
                   result>>

\* lines 163-184: the candidate is made of the pool as it is now, evolved,
\* validated, the task created and given the id read at line 161.
AddBuild(t) ==
    /\ pc[t] = "add_read"
    /\ \E env \in EnvironmentsOf(task_pool) :
        \E o \in {Evolve(task_pool, heap, rnd, loc[t].id,
                         Candidate(task_pool, heap, loc[t].id,
                                   env.transformation), env)} :
            /\ o.rnd <= MaxTasks
            /\ rnd' = o.rnd
            /\ IF o.outcome = "ok"
               THEN /\ Begun(t, "add_built", [task |-> o.ret[1]])
                    /\ heap' = Collect(task_pool \o SeqOf(Pending \cup {o.ret[1]}),
                                       o.heap)
                    /\ UNCHANGED result
               ELSE /\ Returned(t)
                    /\ heap' = Collect(task_pool \o SeqOf(Pending), o.heap)
                    /\ result' = Report("add_task", o.outcome, o.step, <<>>,
                                        "-", NoCall)
    /\ UNCHANGED <<task_pool, contains_loaded_tasks, cfg, cursors, overlap>>

\* lines 185-186: self.task_pool.append(new_task); return new_task
AddAppend(t) ==
    /\ pc[t] = "add_built"
    /\ task_pool' = AppendTask(task_pool, loc[t].task)
    /\ Returned(t)
    /\ result' = Report("add_task", "ok", "", <<loc[t].task>>, "-", NoCall)
    /\ UNCHANGED <<heap, contains_loaded_tasks, rnd, cfg, cursors, overlap>>

\* lines 189-202: the files are read; the call ends here when one is absent.
LoadRead(t) ==
    /\ MayBegin(t)
    /\ overlap' = (overlap \/ Running # {})
    /\ \E call \in LoadCalls :
         IF FirstMissing(call.files) # 0
         THEN /\ result' = Report("load_task", "AssertionError",
                                  LoadSplits[FirstMissing(call.files)], <<>>,
                                  "-", call)
              /\ UNCHANGED <<pc, loc>>
         ELSE /\ Begun(t, "load_read", [call |-> call])
              /\ UNCHANGED result
    /\ UNCHANGED <<task_pool, heap, contains_loaded_tasks, rnd, cfg, cursors>>

\* lines 203-205: Task(..., id=len(self.task_pool), **meta)
LoadBuild(t) ==
    /\ pc[t] = "load_read"
    /\ IF loc[t].call.meta = "rejected"
       THEN /\ Returned(t)
            /\ result' = Report("load_task", "TypeError", "construct", <<>>,
                                "-", loc[t].call)
       ELSE /\ Begun(t, "load_built",
                     [call |-> loc[t].call,
                      task |-> LoadedTask(LoadTaskId(task_pool), LoadSplits)])
            /\ UNCHANGED result
    /\ UNCHANGED <<task_pool, heap, contains_loaded_tasks, rnd, cfg, cursors,
                   overlap>>

\* line 206: self.task_pool.append(task)
LoadAppend(t) ==
    /\ pc[t] = "load_built"
    /\ task_pool' = AppendTask(task_pool, loc[t].task)
    /\ pc' = [pc EXCEPT ![t] = "load_appended"]
    /\ UNCHANGED <<heap, contains_loaded_tasks, rnd, cfg, cursors, result,
                   loc, overlap>>

\* lines 207-208: self.contains_loaded_tasks = True; return task
LoadFlag(t) ==
    /\ pc[t] = "load_appended"
    /\ contains_loaded_tasks' = TRUE
    /\ Returned(t)
    /\ result' = Report("load_task", "ok", "", <<loc[t].task>>, "-",
                        loc[t].call)
    /\ UNCHANGED <<task_pool, heap, rnd, cfg, cursors, overlap>>

NextConc ==
    \/ \E t \in Threads : AddRead(t)
    \/ \E t \in Threads : AddBuild(t)
    \/ \E t \in Threads : AddAppend(t)
    \/ \E t \in Threads : LoadRead(t)
    \/ \E t \in Threads : LoadBuild(t)
    \/ \E t \in Threads : LoadAppend(t)
    \/ \E t \in Threads : LoadFlag(t)

SpecConc == Init /\ [][NextConc]_vars

\* C8: add_task and load_task are not atomic with respect to each other:
\* with the steps of two calls interleaved, two tasks get the same id and
\* task_pool[i].id != i for some i; as long as no call begins while
\* another is running, the id of every task is its position.
C8_SerializedCallsKeepIds ==
    ~overlap =>
        /\ \A i \in 1..Len(task_pool) : task_pool[i].id = i - 1
        /\ \A t \in Running : pc[t] \in {"add_built", "load_built"} =>
               loc[t].task.id = Len(task_pool)

\* C8 witness: two calls overlapped, an add_task and a load_task, and the
\* pool holds their two tasks with the same id.
C8_Witness ==
    /\ overlap
    /\ Len(task_pool) = 2
    /\ task_pool[1].id = task_pool[2].id
    /\ task_pool[1].loaded # task_pool[2].loaded
    /\ Running = {}

(***************************************************************************)
(* get_samples called on arguments of every shape: the concept-groups, the *)
(* per-split counts, the attributes pair and the transformation are drawn  *)
(* from small sets, on generators with and without test-time augmentation. *)
(***************************************************************************)
SynthConfigs ==
    [n_initial_classes : {Cardinality(Leaves), Cardinality(Leaves) + 1},
     tta : BOOLEAN,
     use_cat_id : {TRUE},
     split_names : SplitNameChoices \cup {<<"train">>},
     strat : {"replacing"}]

\* the lists of concept-groups: none, singletons, and a composed group
SynthConcepts ==
    {<<>>, << <<1>> >>, << <<1>>, <<2>> >>, << <<1>>, <<2>>, <<1, 2>> >>}

SynthCalls ==
    [concepts : SynthConcepts,
     n : [1..Len(cfg.split_names) -> 0..MaxCount],
     attributes : {AttributesChoice(1), AttributesChoice(2)},
     transformation : {0} \cup Transformations]

InitSynth == \E c \in SynthConfigs : Construct(c)

\* a call of get_samples on a generator just constructed: line 285 draws
\* from self.rnd before _generate_samples_from_descr is entered
GetSamples ==
    /\ result.op = "init"
    /\ \E call \in SynthCalls :
        \E o \in {get_samples(cfg.tta, call.concepts, call.attributes,
                              call.transformation, call.n)} :
            /\ rnd' = rnd + 1
            /\ result' = Report("get_samples", IF o.ok THEN "ok" ELSE o.err,
                                "", o.val, "-", call)
    /\ UNCHANGED <<task_pool, heap, contains_loaded_tasks, cfg, cursors, pc,
                   loc, overlap>>

\* The calls _create_new_task makes on the pools, in order, with the
\* concepts get_compatible_concepts returned (or the error it raised): the
\* concepts are asked for first (line 301), the transformation after the
\* number of attributes was checked (line 310).
PoolCalls(concepts, n_attributes) ==
    <<"get_compatible_concepts">>
        \o (IF concepts.ok /\ n_attributes <= Cardinality(Attributes)
            THEN <<"get_transformation">> ELSE <<>>)

\* what _create_new_task returns: concepts, (use_cat_id, attributes),
\* transformation, n_samples_per_class
ReturnedSpec(o) ==
    IF ~o.ok THEN <<>>
    ELSE <<o.val.heap[o.val.spec.cref].list,
           <<o.val.spec.attributes.use_cat_id,
             o.val.heap[o.val.spec.attributes.aref].list>>,
           o.val.spec.transformation,
           o.val.heap[o.val.spec.nref].list>>

\* a call of _create_new_task on a generator just constructed, for
\* n_attributes attributes
CreateNewTask ==
    /\ result.op = "init"
    /\ \E n_attributes \in 0..(Cardinality(Attributes) + 1) :
        \E transformation \in Transformations :
            \E o \in {_create_new_task(heap, n_attributes, transformation)} :
                /\ rnd' = rnd + (IF o.ok THEN o.val.draws ELSE 0)
                /\ result' =
                      Report("_create_new_task",
                             IF o.ok THEN "ok" ELSE o.err, "", ReturnedSpec(o),
                             "-",
                             [n_attributes |-> n_attributes,
                              pool_calls |->
                                  PoolCalls(get_compatible_concepts(
                                                cfg.n_initial_classes),
                                            n_attributes)])
    /\ UNCHANGED <<task_pool, heap, contains_loaded_tasks, cfg, cursors, pc,
                   loc, overlap>>

NextSynth == GetSamples \/ CreateNewTask

SpecSynth == InitSynth /\ [][NextSynth]_vars

\* C9: for k concept-groups and per-split counts n_samples_per_class,
\* get_samples returns one (samples, labels) pair per split, in split
\* order; the batch of split s has k * n_samples_per_class[s] samples,
\* except split 1 of a generator with tta, which has
\* 5 * k * n_samples_per_class[1].
C9_BatchSizes ==
    (result.op = "get_samples" /\ result.outcome = "ok") =>
        /\ Len(result.ret) = Len(result.call.n)
        /\ \A s \in 1..Len(result.ret) :
              /\ Len(result.ret[s][1]) =
                    (IF cfg.tta /\ s - 1 = 1 THEN 5 ELSE 1)
                        * Len(result.call.concepts) * result.call.n[s]
              /\ \A r \in 1..Len(result.ret[s][1]) :
                    result.ret[s][1][r].split = s - 1

\* C9 witness: 3 concept-groups, counts [2, 1, 1], tta on: 6, 15 and 3
\* samples.
C9_Witness ==
    /\ result.op = "get_samples" /\ result.outcome = "ok"
    /\ cfg.tta
    /\ Len(result.call.concepts) = 3
    /\ result.call.n = <<2, 1, 1>>
    /\ Len(result.ret[1][1]) = 6
    /\ Len(result.ret[2][1]) = 15
    /\ Len(result.ret[3][1]) = 3

(***************************************************************************)
(* get_similarities.  A similarity value is a binary fraction m * 2^e (m   *)
(* odd, or 0), which covers the doubles the pools' similarity functions    *)
(* return with up to 25 significant bits; the matrices are float32         *)
(* tensors (torch.zeros, line 241), which keep 24.                         *)
(***************************************************************************)
\* the significant bits of a float32
MantissaBits == 24

RECURSIVE Pow2(_)
Pow2(k) == IF k = 0 THEN 1 ELSE 2 * Pow2(k - 1)

RECURSIVE Value(_, _)
Value(m, e) ==
    IF m = 0 THEN [m |-> 0, e |-> 0]
    ELSE IF m % 2 = 0 THEN Value(m \div 2, e + 1)
    ELSE [m |-> m, e |-> e]

Zero == Value(0, 0)
One == Value(1, 0)
Half == Value(1, -1)
\* 1/2 + 2^-25: a double between two neighbouring float32 values
Fine == Value(Pow2(MantissaBits) + 1, -(MantissaBits + 1))

\* The conversion of a double of at most 25 significant bits to float32:
\* round to nearest, ties to even.
Float32(v) ==
    IF v.m < Pow2(MantissaBits) THEN v
    ELSE IF (v.m \div 2) % 2 = 0 THEN Value(v.m \div 2, v.e + 1)
    ELSE Value(v.m \div 2 + 1, v.e + 1)

\* The similarity functions of the pools a generator may be constructed
\* with: symmetric ones, ones that depend on the order of their arguments,
\* and ones whose values need more than 24 bits.
SimKinds == {"exact", "ordered", "fine"}

Similarity(ra, rb) ==
    CASE cfg.pools = "exact" -> IF ra = rb THEN One ELSE Half
      [] cfg.pools = "ordered" -> IF ra <= rb THEN One ELSE Zero
      [] OTHER -> IF ra = rb THEN One ELSE Fine

\* self.transformation_pool.transformations_sim(t1.transformation, ...)
transformations_sim(a, b) == Similarity(a, b)

\* self.concept_pool.y_attributes_sim(t1.attributes, t2.attributes)
y_attributes_sim(h, a, b) ==
    Similarity(Len(h[a.aref].list), Len(h[b.aref].list))

\* self.concept_pool.categories_sim(t1.src_concepts, t2.src_concepts)
categories_sim(h, a, b) == Similarity(Len(h[a].list), Len(h[b].list))

\* component: None, or a string (the sequence of its characters)
Component(none, chars) == [none |-> none, chars |-> chars]

\* if component is None: component = 'xyz'
Chars(component) ==
    IF component.none THEN <<"x", "y", "z">> ELSE component.chars

\* One round of the loop of get_similarity.
CharSim(h, t1, t2, char) ==
    CASE char = "x" -> Ok(transformations_sim(t1.transformation,
                                              t2.transformation))
      [] char = "y" -> Ok(y_attributes_sim(h, t1.attributes, t2.attributes))
      [] char = "z" -> Ok(categories_sim(h, t1.cref, t2.cref))
      [] OTHER -> Raise("ValueError")

\* A character that is none of x, y, z given the similarity 0.
get_similarity_lenient(h, t1, t2, component) ==
    LET chars == Chars(component)
        res == [c \in 1..Len(chars) |-> CharSim(h, t1, t2, chars[c])]
    IN  Ok([c \in 1..Len(chars) |-> IF res[c].ok THEN res[c].val ELSE Zero])

\* get_similarity: the similarities of t1 and t2, one per character of the
\* component, or the ValueError of the first character that is none of
\* x, y, z.
get_similarity(h, t1, t2, component) ==
    LET chars == Chars(component)
        res == [c \in 1..Len(chars) |-> CharSim(h, t1, t2, chars[c])]
    IN  IF \E c \in 1..Len(chars) : ~res[c].ok THEN Raise("ValueError")
        ELSE Ok([c \in 1..Len(chars) |-> res[c].val])

\* The rounds of the nested loops: for i, t1 in enumerate(pool), for j, t2
\* in enumerate(pool[i:]), as pairs (i, j) of positions.
RECURSIVE Rounds(_, _, _)
Rounds(n, i, j) ==
    IF i >= n THEN <<>>
    ELSE IF j >= n - i THEN Rounds(n, i + 1, 0)
    ELSE <<[i |-> i, j |-> j]>> \o Rounds(n, i, j + 1)

\* sim = torch.tensor(sim)
Tensor(sim) == [c \in 1..Len(sim) |-> Float32(sim[c])]

\* Written at [i, j] and [j, i], j being the position in the slice.
StoredAtSliceIndex(similarities, i, j, sim) ==
    [similarities EXCEPT ![<<i, j>>] = sim, ![<<j, i>>] = sim]

\* similarities[i, i + j] = sim; similarities[i + j, i] = sim
Stored(similarities, i, j, sim) ==
    [similarities EXCEPT ![<<i, i + j>>] = sim, ![<<i + j, i>>] = sim]

\* The loops of lines 243-250 from round k on: st is the tensor and the
\* calls of get_similarity made so far, each with what it returned.
RECURSIVE Filled(_, _, _, _, _, _)
Filled(pool, h, component, rounds, k, st) ==
    IF k > Len(rounds) THEN Ok(st)
    ELSE LET i == rounds[k].i
             j == rounds[k].j
             got == get_similarity(h, pool[i + 1], pool[i + j + 1], component)
         IN  IF ~got.ok THEN got
             ELSE Filled(pool, h, component, rounds, k + 1,
                         [similarities |->
                              Stored(st.similarities, i, j, Tensor(got.val)),
                          calls |-> Append(st.calls,
                                           [t1 |-> i, t2 |-> i + j,
                                            sim |-> got.val])])

\* torch.zeros(self.n_tasks, self.n_tasks, len(component))
Zeros(n, chars) ==
    [p \in (0..(n - 1)) \X (0..(n - 1)) |-> [c \in 1..Len(chars) |-> Zero]]

\* dict(zip(component, similarities.unbind(-1))): a character that occurs
\* twice keeps its last matrix.
SimDict(chars, similarities) ==
    [ch \in {chars[c] : c \in 1..Len(chars)} |->
        LET last == CHOOSE c \in 1..Len(chars) :
                       /\ chars[c] = ch
                       /\ \A d \in 1..Len(chars) : chars[d] = ch => d <= c
        IN  [p \in DOMAIN similarities |-> similarities[p][last]]]

\* get_similarities: the dict of the matrices and, for the properties, the
\* calls of get_similarity it made.
get_similarities(pool, h, component) ==
    LET filled == Filled(pool, h, component, Rounds(Len(pool), 0, 0), 1,
                         [similarities |-> Zeros(Len(pool), Chars(component)),
                          calls |-> <<>>])
    IN  IF ~filled.ok THEN filled
        ELSE Ok([sim_dict |-> SimDict(Chars(component),
                                      filled.val.similarities),
                 calls |-> filled.val.calls])

SimConfigs ==
    [n_initial_classes : {Cardinality(Leaves)}, tta : {FALSE},
     use_cat_id : {TRUE}, split_names : {LoadSplits}, strat : {"replacing"},
     pools : SimKinds]

SimComponents ==
    {Component(TRUE, <<>>)} \cup
    {Component(FALSE, chars) :
        chars \in {<<>>, <<"x">>, <<"z", "x">>, <<"x", "x">>, <<"y", "q">>,
                   <<"q", "x">>, <<"x", "q", "z">>}}

InitSim == \E c \in SimConfigs : Construct(c)

\* a call of get_similarities
GetSimilarities ==
    /\ \E component \in SimComponents :
        \E o \in {get_similarities(task_pool, heap, component)} :
            result' = Report("get_similarities",
                             IF o.ok THEN "ok" ELSE o.err, "", o.val, "-",
                             component)
    /\ UNCHANGED <<task_pool, heap, contains_loaded_tasks, rnd, cfg, cursors,
                   pc, loc, overlap>>

\* a call of get_similarity on two tasks of the pool
GetSimilarity ==
    /\ \E i, j \in 1..Len(task_pool) :
        \E component \in SimComponents :
            \E o \in {get_similarity(heap, task_pool[i], task_pool[j],
                                     component)} :
                result' = Report("get_similarity",
                                 IF o.ok THEN "ok" ELSE o.err, "", o.val, "-",
                                 component)
    /\ UNCHANGED <<task_pool, heap, contains_loaded_tasks, rnd, cfg, cursors,
                   pc, loc, overlap>>

\* t.info(full): what a task tells about itself
info(t, full) ==
    IF full THEN [id |-> t.id, transformation |-> t.transformation]
    ELSE [id |-> t.id, transformation |-> 0]

\* stream_infos: [t.info(full) for t in self.task_pool]
stream_infos(pool, full) == [i \in 1..Len(pool) |-> info(pool[i], full)]

\* a call of stream_infos
StreamInfos ==
    /\ \E full \in BOOLEAN :
        result' = Report("stream_infos", "ok", "", stream_infos(task_pool, full),
                         "-", Component(TRUE, <<>>))
    /\ UNCHANGED <<task_pool, heap, contains_loaded_tasks, rnd, cfg, cursors,
                   pc, loc, overlap>>

NextSim == AddTask \/ GetSimilarities \/ GetSimilarity \/ StreamInfos

SpecSim == InitSim /\ [][NextSim]_vars

\* The positions of a pool of n tasks.
Positions(n) == 0..(n - 1)

\* The matrices are n x n and symmetric, and get_similarity was called once
\* for each pair i <= j, in the order of the loops, and for no other pair.
SymmetricAndTriangular ==
    LET n == Len(task_pool)
        calls == result.ret.calls
    IN  /\ \A ch \in DOMAIN result.ret.sim_dict :
              /\ DOMAIN result.ret.sim_dict[ch] = Positions(n) \X Positions(n)
              /\ \A i, j \in Positions(n) :
                    result.ret.sim_dict[ch][<<i, j>>] =
                        result.ret.sim_dict[ch][<<j, i>>]
        /\ 2 * Len(calls) = n * (n + 1)
        /\ \A k \in 1..Len(calls) : calls[k].t1 <= calls[k].t2
        /\ \A i, j \in Positions(n) :
              i <= j =>
                 Cardinality({k \in 1..Len(calls) :
                                 calls[k].t1 = i /\ calls[k].t2 = j}) = 1

\* What get_similarity returned for the pair (i, j), i <= j, on the axis ch.
Delegated(i, j, ch) ==
    LET calls == result.ret.calls
        k == CHOOSE q \in 1..Len(calls) : calls[q].t1 = i /\ calls[q].t2 = j
        chars == Chars(result.call)
        c == CHOOSE d \in 1..Len(chars) : chars[d] = ch
    IN  calls[k].sim[c]

\* C10, with float32 entries: for every requested axis the matrix is n x n and
\* symmetric, also when the delegated similarity is not; get_similarity is
\* called exactly once per pair i <= j and never for i > j; and the entry
\* at [i, j], i <= j (the diagonal included), is the delegated similarity
\* of (task i, task j) rounded to float32.
C10_SymmetricRoundedMatrix ==
    (result.op = "get_similarities" /\ result.outcome = "ok") =>
        /\ SymmetricAndTriangular
        /\ DOMAIN result.ret.sim_dict =
              {Chars(result.call)[c] : c \in 1..Len(Chars(result.call))}
        /\ \A ch \in DOMAIN result.ret.sim_dict :
              \A i, j \in Positions(Len(task_pool)) :
                 i <= j => result.ret.sim_dict[ch][<<i, j>>] =
                              Float32(Delegated(i, j, ch))

\* C10 as stated: the entry at [i, j], i <= j, is the value of the
\* delegated similarity itself.
C10_EntryIsDelegatedValue ==
    (result.op = "get_similarities" /\ result.outcome = "ok") =>
        /\ SymmetricAndTriangular
        /\ \A ch \in DOMAIN result.ret.sim_dict :
              \A i, j \in Positions(Len(task_pool)) :
                 i <= j => result.ret.sim_dict[ch][<<i, j>>] =
                              Delegated(i, j, ch)

\* C10 witness: the similarities of two tasks on two axes, with a
\* transformation similarity that is not symmetric.
C10_Witness ==
    /\ result.op = "get_similarities" /\ result.outcome = "ok"
    /\ Len(task_pool) = 2
    /\ Chars(result.call) = <<"z", "x">>
    /\ transformations_sim(task_pool[1].transformation,
                           task_pool[2].transformation)
          # transformations_sim(task_pool[2].transformation,
                                task_pool[1].transformation)
    /\ result.ret.sim_dict["x"][<<1, 0>>] = One

\* the characters get_similarity knows
Axes == {"x", "y", "z"}

\* C11: get_similarity fails with a ValueError whenever the component has a
\* character other than x, y, z, at any position, and returns no partial
\* result then; and get_similarity, get_similarities and stream_infos,
\* whether they succeed or fail, leave task_pool, contains_loaded_tasks and
\* the generator's random source as they were.
C11_UnknownAxisIsRefused ==
    /\ [](result.op = "get_similarity" =>
             IF \E c \in 1..Len(Chars(result.call)) :
                    Chars(result.call)[c] \notin Axes
             THEN result.outcome = "ValueError" /\ result.ret = <<>>
             ELSE /\ result.outcome = "ok"
                  /\ Len(result.ret) = Len(Chars(result.call)))
    /\ [][result'.op \in {"get_similarity", "get_similarities", "stream_infos"}
             => /\ task_pool' = task_pool
                /\ contains_loaded_tasks' = contains_loaded_tasks
                /\ rnd' = rnd]_vars

\* C11 witness: get_similarity has just failed on two tasks for a component
\* whose unknown character stands between two known ones.
C11_Witness ==
    /\ result.op = "get_similarity" /\ result.outcome = "ValueError"
    /\ Chars(result.call) = <<"x", "q", "z">>
    /\ Len(task_pool) = 2 /\ rnd = 2

(***************************************************************************)
(* Where the randomness of the samples comes from.  get_samples draws one  *)
(* integer from self.rnd and seeds with it the numpy generator that        *)
(* _get_samples draws the samples with (line 285); the perturbations of    *)
(* augment_samples (RandomHorizontalFlip, RandomCrop, lines 38-48) take    *)
(* theirs from torch's global generator, which no argument of the          *)
(* TaskGenerator seeds.  Two generators constructed with the same          *)
(* arguments and driven through the same calls are followed together:      *)
(* self.rnd of both has made the same number of draws, and result holds    *)
(* what each of the two returned.                                          *)
(***************************************************************************)
\* the seeds a generator may be constructed with
Seeds == {"seed1", "seed2"}

\* the states torch's global generator may be in when a call is made
GlobalStates == {"g1", "g2"}

\* self.rnd.randint(0, int(1e9)): the k-th draw of the source seeded with
\* seed
randint(seed, k) == [seed |-> seed, draw |-> k]

\* A sample with the randomness that made it: the numpy generator seeded
\* for the call, and for a perturbed variant the state of torch's global
\* generator.
WithSources(sample, rng, g) ==
    [grp |-> sample.grp, split |-> sample.split, rank |-> sample.rank,
     variant |-> sample.variant, trans |-> sample.trans, rng |-> rng,
     noise |-> IF sample.variant \in 1..NVariants THEN g ELSE "-"]

\* What get_samples returns, each sample with its sources.
FromSources(o, rng, g) ==
    IF ~o.ok THEN o
    ELSE Ok([s \in 1..Len(o.val) |->
               <<[r \in 1..Len(o.val[s][1]) |->
                     WithSources(o.val[s][1][r], rng, g)],
                 o.val[s][2]>>])

SeedConfigs ==
    [n_initial_classes : {Cardinality(Leaves)}, tta : BOOLEAN,
     use_cat_id : {TRUE}, split_names : {LoadSplits}, strat : {"replacing"},
     seed : Seeds]

SeedCalls ==
    [concepts : {<< <<1>> >>, << <<1>>, <<2>> >>},
     n : [1..Len(cfg.split_names) -> 0..MaxCount],
     attributes : {AttributesChoice(2)},
     transformation : Transformations]

InitSeed == \E c \in SeedConfigs : Construct(c)

\* The same call of get_samples made on each of the two generators, with
\* torch's global generator in the state ga for the one and gb for the
\* other.
GetSamplesTwice ==
    /\ rnd < MaxTasks
    /\ \E call \in SeedCalls :
        \E ga, gb \in GlobalStates :
            \E o \in {get_samples(cfg.tta, call.concepts, call.attributes,
                                  call.transformation, call.n)} :
                /\ rnd' = rnd + 1
                /\ result' =
                      Report("get_samples", IF o.ok THEN "ok" ELSE o.err, "",
                             <<FromSources(o, randint(cfg.seed, rnd), ga).val,
                               FromSources(o, randint(cfg.seed, rnd), gb).val>>,
                             "-", call)
    /\ UNCHANGED <<task_pool, heap, contains_loaded_tasks, cfg, cursors, pc,
                   loc, overlap>>

NextSeed == GetSamplesTwice

SpecSeed == InitSeed /\ [][NextSeed]_vars

\* C12: two generators constructed with the same seed, pools and strategy
\* and driven through the same calls return identical samples and labels
\* for every split, the test-time augmented one included: all the
\* randomness of the samples is that of the generator's own seeded source,
\* which every get_samples call advances by one draw.
C12_SameSeedSameSamples ==
    (result.op = "get_samples" /\ result.outcome = "ok") =>
        result.ret[1] = result.ret[2]

(***************************************************************************)
(* The order of the augmented split.  get_samples augments the split of    *)
(* each concept-group on its own (line 71), so the augmented split of a    *)
(* call with k concept-groups and m samples per group is k runs of 5 * m   *)
(* entries, one run per call of augment_samples.                           *)
(***************************************************************************)
\* a get_samples call that returned an augmented split
Augmented ==
    /\ result.op = "get_samples" /\ result.outcome = "ok"
    /\ cfg.tta /\ Len(result.call.n) > TtaSplitId

\* the number of samples augment_samples was given
AugInput == result.call.n[TtaSplitId + 1]

\* entry p (from 0) of what the i-th call (from 0) of augment_samples
\* returned
AugEntry(i, p) ==
    result.ret[TtaSplitId + 1][1][(NVariants + 1) * AugInput * i + p + 1]

\* the entry is the unperturbed copy of the sample s_r
CopyOf(e, r) == e.rank = r /\ e.variant = CopyVariant

\* C13 as stated: the entry at v * m + r is a perturbed variant of s_r
\* (variant-major), and the entry at 4 * m + r the unperturbed copy of s_r.
C13_VariantMajor ==
    Augmented =>
        \A i \in 0..(Len(result.call.concepts) - 1) :
            \A r \in 0..(AugInput - 1) :
                /\ \A v \in 0..(NVariants - 1) :
                      /\ AugEntry(i, v * AugInput + r).rank = r
                      /\ AugEntry(i, v * AugInput + r).variant \in 1..NVariants
                /\ CopyOf(AugEntry(i, NVariants * AugInput + r), r)

\* C13, sample-major: for an input of m samples the augmented split has
\* 5 * m entries; for r in 0..m-1 and v in 0..3 the entry at 4 * r + v is
\* the perturbed variant number v + 1 of s_r, so the four variants of a
\* sample are adjacent and the samples follow in original order; the entry
\* at 4 * m + r is the unperturbed copy of s_r.
C13_SampleMajor ==
    Augmented =>
        /\ Len(result.ret[TtaSplitId + 1][1]) =
              (NVariants + 1) * AugInput * Len(result.call.concepts)
        /\ \A i \in 0..(Len(result.call.concepts) - 1) :
              \A r \in 0..(AugInput - 1) :
                  /\ \A v \in 0..(NVariants - 1) :
                        /\ AugEntry(i, NVariants * r + v).rank = r
                        /\ AugEntry(i, NVariants * r + v).variant = v + 1
                        /\ AugEntry(i, NVariants * r + v).grp =
                              result.call.concepts[i + 1]
                  /\ CopyOf(AugEntry(i, NVariants * AugInput + r), r)

\* C13 witness: two concept-groups with two samples each in the augmented
\* split, where the two orders differ.
C13_Witness ==
    /\ Augmented
    /\ AugInput = 2 /\ Len(result.call.concepts) = 2
    /\ AugEntry(1, 1).rank = 0 /\ AugEntry(1, 1).variant = 2
    /\ AugEntry(1, 4).rank = 1 /\ AugEntry(1, 9).variant = CopyVariant

(***************************************************************************)
(* The fields of the pooled tasks across add_task.  Lines 167-170 bind     *)
(* the candidate's fields to the very objects the last task holds, so the  *)
(* fields are compared by what the objects contain, not by which objects   *)
(* they are.                                                               *)
(***************************************************************************)
\* the list at ref, None for no object
ListAt(h, ref) ==
    IF ref = 0 THEN [none |-> TRUE, list |-> <<>>]
    ELSE [none |-> FALSE, list |-> h[ref].list]

\* src_concepts, attributes, transformation and n_samples_per_class of a
\* task, as they read
Described(task, h) ==
    [src_concepts |-> ListAt(h, task.cref),
     n_samples_per_class |-> ListAt(h, task.nref),
     use_cat_id |-> task.attributes.use_cat_id,
     attributes |-> ListAt(h, task.attributes.aref),
     transformation |-> task.transformation]

\* C14: an add_task call, made directly or by a cursor, successful or
\* not, leaves src_concepts, attributes, transformation and
\* n_samples_per_class of every task already in task_pool as they were,
\* whatever the strategy does to the candidate spec it received.
C14_PooledTasksNeverChange ==
    [][result'.op \in {"add_task", "next"}
          => \A i \in 1..Len(task_pool) :
                /\ i <= Len(task_pool')
                /\ Described(task_pool'[i], heap') =
                      Described(task_pool[i], heap)]_vars

(***************************************************************************)
(* Where the candidate spec comes from (lines 163-170).  The from-scratch  *)
(* branch is the only caller of get_compatible_concepts and                *)
(* get_transformation, and the only step of add_task that fails            *)
(* "candidate".  A strategy that returns the spec object it was given,     *)
(* as the two that replace no field with success do, shows which objects   *)
(* that spec held.                                                         *)
(***************************************************************************)
\* the task has the very objects and the transformation of the other
SameFields(task, other) ==
    /\ task.cref = other.cref /\ task.nref = other.nref
    /\ task.attributes = other.attributes
    /\ task.transformation = other.transformation

C15_SharedWitness ==
    /\ result.op = "add_task" /\ result.outcome = "ok"
    /\ cfg.strat = "mutating"
    /\ Len(task_pool) = 2 /\ ~task_pool[1].loaded
    /\ SameFields(task_pool[2], task_pool[1])

\* C16: every task of task_pool, generated or loaded, holds as many
\* (samples, labels) pairs as the generator has split names, and for a
\* generated task that is also the length of its n_samples_per_class.
C16_PairsMatchSplitNames ==
    \A i \in 1..Len(task_pool) :
        /\ task_pool[i].npairs = Len(cfg.split_names)
        /\ ~task_pool[i].loaded =>
              Len(heap[task_pool[i].nref].list) = task_pool[i].npairs

\* C16 for the generated tasks at the moment add_task returns them.
C16_GeneratedPairs ==
    (result.op \in {"add_task", "next"} /\ result.outcome = "ok") =>
        /\ result.ret[1].loaded \/ result.ret[1].npairs = Len(cfg.split_names)
        /\ (result.op = "add_task") =>
              Len(heap[result.ret[1].nref].list) = Len(cfg.split_names)

\* C17: a cursor advance ends the sequence (StopIteration) only when
\* add_task failed for want of compatible concepts, in making the
\* from-scratch candidate or in the strategy; a failure of the validation
\* or of the creation of the task, sample synthesis included, goes to the
\* caller as the error it is.
C17_OnlyExhaustionEndsTheSequence ==
    (result.op = "next" /\ result.outcome = "StopIteration") =>
        result.step \in {"candidate", "strategy"}

\* C18: _create_new_task asked for more attributes than the concept pool
\* has fails with a ValueError before anything was asked of the pools
\* (no concepts drawn, no transformation selected) and before self.rnd
\* was advanced.
C18_RangeErrorBeforeSampling ==
    (result.op = "_create_new_task"
        /\ result.call.n_attributes > Cardinality(Attributes)) =>
        /\ result.outcome = "ValueError"
        /\ result.call.pool_calls = <<>>
        /\ rnd = 0

\* C18, with the concepts drawn first: _create_new_task asked for more
\* attributes than the concept pool has fails after it asked the concept
\* pool for the concepts and before it selects a transformation or
\* advances self.rnd; the error is the ValueError when the concept pool
\* supplied the concepts, and the concept pool's own error when it could
\* not.
C18_RangeErrorAfterConcepts ==
    (result.op = "_create_new_task"
        /\ result.call.n_attributes > Cardinality(Attributes)) =>
        /\ result.call.pool_calls = <<"get_compatible_concepts">>
        /\ rnd = 0
        /\ result.ret = <<>>
        /\ result.outcome =
              (IF cfg.n_initial_classes <= Cardinality(Leaves)
               THEN "ValueError" ELSE "IndexError")

\* C18 witness: too many attributes asked of a generator whose concept
\* pool cannot supply the initial classes.
C18_Witness ==
    /\ result.op = "_create_new_task"
    /\ result.call.n_attributes = Cardinality(Attributes) + 1
    /\ cfg.n_initial_classes > Cardinality(Leaves)
    /\ result.outcome = "IndexError"

\* the rows of split s (from 1) that get_samples returned for each
\* concept-group
RowsPerGroup(s) ==
    (IF cfg.tta /\ s - 1 = TtaSplitId THEN NVariants + 1 ELSE 1)
        * result.call.n[s]

\* C19: in every split get_samples returns, the labels have as many rows
\* as the samples (5 times the requested count per concept-group in the
\* augmented split); row r of the labels is the index, from 0, of the
\* concept-group whose mixture gave sample r; the rows come by ascending
\* concept-group index; and the transformation, applied to every sample,
\* leaves the labels as they are.
C19_LabelsFollowSamples ==
    (result.op = "get_samples" /\ result.outcome = "ok") =>
        \A s \in 1..Len(result.ret) :
            /\ Len(result.ret[s][2]) = Len(result.ret[s][1])
            /\ Len(result.ret[s][2]) =
                  RowsPerGroup(s) * Len(result.call.concepts)
            /\ \A r \in 1..Len(result.ret[s][2]) :
                  /\ result.ret[s][2][r] =
                        (r - 1) \div RowsPerGroup(s)
                  /\ result.ret[s][2][r] \in
                        0..(Len(result.call.concepts) - 1)
                  /\ result.ret[s][1][r].grp =
                        result.call.concepts[result.ret[s][2][r] + 1]
                  /\ result.ret[s][1][r].trans = result.call.transformation
                  /\ r > 1 => result.ret[s][2][r - 1] <= result.ret[s][2][r]

\* C19 witness: three concept-groups, two samples each in the augmented
\* split: 30 rows, the labels of the second group at rows 10 to 19 (from
\* 0), under the second transformation.
C19_Witness ==
    /\ result.op = "get_samples" /\ result.outcome = "ok"
    /\ cfg.tta /\ Len(result.ret) > TtaSplitId
    /\ Len(result.call.concepts) = 3
    /\ Len(result.ret[TtaSplitId + 1][2]) = 30
    /\ result.ret[TtaSplitId + 1][2][10] = 0
    /\ result.ret[TtaSplitId + 1][2][11] = 1
    /\ result.ret[TtaSplitId + 1][2][21] = 2
    /\ result.ret[TtaSplitId + 1][1][21].trans = 2

\* C20: for every cursor 0 <= n <= len(task_pool), in every state reached
\* by advances of any of the cursors and direct add_task and load_task
\* calls in any order, each call one step; so an advance that finds
\* n >= len(task_pool) finds them equal, and the assertion of line 99
\* never fails.
C20_CursorWithinPool ==
    /\ \A c \in DOMAIN cursors :
          cursors[c] >= 0 /\ cursors[c] <= Len(task_pool)
    /\ ~(result.op = "next" /\ result.step = "cursor")

\* C20 witness: a cursor has just extended the pool and stands at its end,
\* the other cursor is behind, and a task of the pool was loaded directly.
C20_Witness ==
    /\ result.op = "next" /\ result.outcome = "ok"
    /\ DOMAIN cursors = Cursors
    /\ cursors[result.cur] = Len(task_pool) /\ Len(task_pool) = MaxTasks
    /\ \E c \in Cursors : cursors[c] < Len(task_pool)
    /\ HasLoaded(task_pool) /\ ~LastTask(task_pool).loaded

====
